---- MODULE Spec2Model ----
(***************************************************************************)
(* Flash-plan engine of app/widgets/flash_tab.py: the config parser        *)
(* (_parse_config), the device identity check and the step executor        *)
(* (_run_flash_plan_in_thread) driven by _FlashWorker._flash_scattered.    *)
(* Python strings are TLA+ strings; Len, \o and SubSeq act on them.        *)
(***************************************************************************)
EXTENDS Integers, Sequences, FiniteSets, TLC

VARIABLES
    cfgText,      \* lines of the config file, as f.readlines() returns them
    plan,         \* result of _parse_config: None or the plan
    images,       \* keys of the dict _scan_images returns (lower-cased file names)
    wipe_check,   \* FlashTab.wipe_check.isChecked()
    keep_root,    \* FlashTab.keep_root_check.isChecked()
    devProduct,   \* product name the attached device reports
    queryRes,     \* how fastboot getvar product ends: "ok", "fail", "timeout"
    deviceMode,   \* mode the device is really in: "bootloader", "fastbootd", "none"
    pc,           \* position of the flash worker
    step_i,       \* index i of the step loop: number of steps dispatched so far
    cmds,         \* fastboot commands issued so far, with the step that issued them
    results,      \* how the commands of the latest handler ended, in order
    log,          \* events the latest handler passed to log_func, as tags
    finished,     \* finished(success, message) signals emitted, success only
    accepted,     \* outcome of the identity check: "pending", "yes", "no"
    _cancelled,   \* _FlashWorker._cancelled
    _paused,      \* _DeviceWatcher._paused
    config_path,  \* _FlashWorker.config_path / FlashTab._config_path: "None" or a path
    progress,     \* the latest progress_signal emission (i, total, percentage), <<>> before
    serial,       \* serial number of the attached device, "" when there is none
    _stop,        \* _DeviceWatcher._stop
    _last_state,  \* _DeviceWatcher._last_state
    wpc,          \* position of the watcher thread in _DeviceWatcher.run
    probed,       \* what the latest detect_connection_mode() of the watcher returned
    emitted,      \* status_changed(mode, serial) emissions of the watcher, in order
    afterStop,    \* probes the watcher started since stop() was called
    _watcher_worker, \* FlashTab._watcher_worker: "None" or the watcher
    _flash_thread,   \* FlashTab._flash_thread: "None" or the thread of the current worker
    orphans,      \* running worker threads that FlashTab.cleanup made the tab forget
    em            \* frame of a call of _ensure_mode: position, argument, loop index,
                  \* latest _device_mode() result, return value

vars == <<cfgText, plan, images, wipe_check, keep_root, devProduct, queryRes, deviceMode,
          pc, step_i, cmds, results, log, finished, accepted, _cancelled, _paused,
          config_path, progress, serial, _stop, _last_state, wpc, probed, emitted,
          afterStop, _watcher_worker, _flash_thread, orphans, em>>

watchVars == <<serial, _stop, _last_state, wpc, probed, emitted, afterStop, _watcher_worker>>

threadVars == <<_flash_thread, orphans>>

-----------------------------------------------------------------------------
(* Bounds of the model *)

MaxLines == 3        \* config lines of a text given to the parser alone
MaxBody == 2         \* config lines after the device: line in a plan run
MaxDevices == 2      \* device ids of a plan given to the identity check alone
MaxEmit == 2         \* status_changed emissions a watcher run is followed for
MaxOrphans == 1      \* worker threads dropped by cleanup that a run is followed for
MaxSteps == 50       \* steps of a plan whose progress is followed

-----------------------------------------------------------------------------
(* Python str operations *)

Char(s, i) == SubSeq(s, i, i)

IsSpace(c) == c \in {" ", "\t", "\n", "\r"}

StartsWith(s, p) == Len(s) >= Len(p) /\ SubSeq(s, 1, Len(p)) = p

EndsWith(s, p) == Len(s) >= Len(p) /\ SubSeq(s, Len(s) - Len(p) + 1, Len(s)) = p

\* p in s
Contains(s, p) == \E k \in 1..(Len(s) - Len(p) + 1) : SubSeq(s, k, k + Len(p) - 1) = p

\* s.find(p) + 1: index of the first occurrence of p in s, 0 when there is none
Find(s, p) ==
    IF Contains(s, p)
    THEN CHOOSE k \in 1..(Len(s) - Len(p) + 1) :
            /\ SubSeq(s, k, k + Len(p) - 1) = p
            /\ \A j \in 1..(k - 1) : SubSeq(s, j, j + Len(p) - 1) # p
    ELSE 0

RECURSIVE LStrip(_)
LStrip(s) == IF Len(s) > 0 /\ IsSpace(Char(s, 1)) THEN LStrip(SubSeq(s, 2, Len(s))) ELSE s

RECURSIVE RStrip(_)
RStrip(s) == IF Len(s) > 0 /\ IsSpace(Char(s, Len(s))) THEN RStrip(SubSeq(s, 1, Len(s) - 1)) ELSE s

\* s.strip()
Strip(s) == RStrip(LStrip(s))

\* s.split(sep, 1)[-1]: what follows the first sep, the whole of s when sep is absent
AfterFirst(s, sep) ==
    LET k == Find(s, sep) IN IF k = 0 THEN s ELSE SubSeq(s, k + Len(sep), Len(s))

\* s.split(sep): the pieces of s between the occurrences of sep
RECURSIVE SplitOn(_, _)
SplitOn(s, sep) ==
    LET k == Find(s, sep) IN
    IF k = 0 THEN <<s>>
    ELSE <<SubSeq(s, 1, k - 1)>> \o SplitOn(SubSeq(s, k + Len(sep), Len(s)), sep)

\* length of the run of non-blank characters s starts with
RECURSIVE WordLen(_)
WordLen(s) == IF Len(s) = 0 \/ IsSpace(Char(s, 1)) THEN 0 ELSE 1 + WordLen(SubSeq(s, 2, Len(s)))

\* s.split(): the blank-separated words of s
RECURSIVE SplitWs(_)
SplitWs(s) ==
    LET t == LStrip(s) IN
    IF t = "" THEN <<>>
    ELSE <<SubSeq(t, 1, WordLen(t))>> \o SplitWs(SubSeq(t, WordLen(t) + 1, Len(t)))

UpperLetters == "ABCDEFGHIJKLMNOPQRSTUVWXYZ"

LowerLetters == "abcdefghijklmnopqrstuvwxyz"

LowerChar(c) ==
    LET k == Find(UpperLetters, c) IN IF k = 0 THEN c ELSE Char(LowerLetters, k)

\* s.lower()
RECURSIVE Lower(_)
Lower(s) == IF s = "" THEN "" ELSE LowerChar(Char(s, 1)) \o Lower(SubSeq(s, 2, Len(s)))

-----------------------------------------------------------------------------------------------------------------------------------------------------
(* Python float operations: int((i / total) * 100) in IEEE 754 binary64, for  *)
(* 0 < i <= total.  A float is a significand of 53 bits (a sequence of 0 and  *)
(* 1, most significant first, read as an integer) and the exponent of 2 that  *)
(* scales it.                                                                 *)

\* the number of doublings of i that reach total
RECURSIVE Norm(_, _)
Norm(i, total) == IF i >= total THEN 0 ELSE 1 + Norm(2 * i, total)

\* 2^k modulo total
RECURSIVE Pow2Mod(_, _)
Pow2Mod(k, total) ==
    IF k = 0 THEN 1 % total
    ELSE (Pow2Mod(k \div 2, total) * Pow2Mod(k \div 2, total) * (1 + (k % 2))) % total

\* the first n bits of the binary expansion of r / total, for r < total, and
\* what is left of r
DivBits(r, total, n) ==
    [bits |-> [k \in 1..n |-> (2 * ((r * Pow2Mod(k - 1, total)) % total)) \div total],
     rem |-> (r * Pow2Mod(n, total)) % total]

\* bits + 1
Incr(bits) ==
    IF \A k \in 1..Len(bits) : bits[k] = 1
    THEN <<1>> \o [k \in 1..Len(bits) |-> 0]
    ELSE LET z == CHOOSE k \in 1..Len(bits) :
                    bits[k] = 0 /\ \A j \in (k + 1)..Len(bits) : bits[j] = 1
         IN [k \in 1..Len(bits) |-> IF k < z THEN bits[k] ELSE IF k = z THEN 1 ELSE 0]

\* round to nearest, ties to even, to 53 bits; sticky: bits below were not zero
Round53(bits, sticky, ex) ==
    IF Len(bits) <= 53 THEN [m |-> bits, e |-> ex]
    ELSE LET keep == SubSeq(bits, 1, 53)
             st == sticky \/ \E j \in 55..Len(bits) : bits[j] = 1
             up == IF bits[54] = 1 /\ (st \/ keep[53] = 1) THEN Incr(keep) ELSE keep
         IN IF Len(up) = 54
            THEN [m |-> SubSeq(up, 1, 53), e |-> ex + (Len(bits) - 53) + 1]
            ELSE [m |-> up, e |-> ex + (Len(bits) - 53)]

\* i / total
FloatDiv(i, total) ==
    LET q == DivBits(i * (2 ^ Norm(i, total)) - total, total, 53)
    IN Round53(<<1>> \o q.bits, q.rem # 0, 0 - Norm(i, total) - 53)

\* the integer the bits stand for, for up to 30 bits
RECURSIVE ToInt(_)
ToInt(bits) ==
    IF Len(bits) = 0 THEN 0
    ELSE IF Len(bits) = 1 THEN bits[1]
    ELSE ToInt(SubSeq(bits, 1, Len(bits) \div 2)) * (2 ^ (Len(bits) - Len(bits) \div 2))
         + ToInt(SubSeq(bits, Len(bits) \div 2 + 1, Len(bits)))

\* the w low bits of c
LowBits(c, w) == [k \in 1..w |-> (c \div (2 ^ (w - k))) % 2]

\* the bits of c > 0, without leading zeros
BitsOf(c) == LowBits(c, CHOOSE w \in 1..30 : 2 ^ (w - 1) <= c /\ c < 2 ^ w)

\* a significand of 53 bits times 100, exactly, in limbs of 20 bits
Times100(bits) ==
    LET lo == 100 * ToInt(SubSeq(bits, 34, 53))
        mid == 100 * ToInt(SubSeq(bits, 14, 33)) + lo \div (2 ^ 20)
        hi == 100 * ToInt(SubSeq(bits, 1, 13)) + mid \div (2 ^ 20)
    IN BitsOf(hi) \o LowBits(mid % (2 ^ 20), 20) \o LowBits(lo % (2 ^ 20), 20)

\* x * 100
FloatTimes100(x) == Round53(Times100(x.m), FALSE, x.e)

\* int(x), for 0 < x < 2^30
FloatToInt(x) == IF 0 - x.e >= 53 THEN 0 ELSE ToInt(SubSeq(x.m, 1, 53 + x.e))

\* int((i / total) * 100) for the plans of up to MaxSteps steps
PercentTable ==
    [total \in 1..MaxSteps |->
        [i \in 1..total |-> FloatToInt(FloatTimes100(FloatDiv(i, total)))]]

\* percentage = int((i / total_steps) * 100)
Percentage(i, total_steps) == PercentTable[total_steps][i]

\* progress_callback(i, total_steps, percentage)
Progress(i, total_steps) == <<i, total_steps, Percentage(i, total_steps)>>

-----------------------------------------------------------------------------
(* Config parser: FlashTab._parse_config *)

\* _parse_config returning None
None == [ok |-> FALSE, devices |-> <<>>, steps |-> <<>>]

ParseStart == [devices |-> <<>>, steps |-> <<>>, current_mode |-> "None", raised |-> FALSE]

DeviceLine(st, line) ==
    LET v == Strip(AfterFirst(line, ":")) IN
    IF v # "" THEN [st EXCEPT !.devices = Append(@, v)] ELSE st

\* faulty variant of ModeLine: the step is emitted, current_mode is not set
MutModeLineNoContext(st, line) ==
    [st EXCEPT !.steps = Append(@, [type |-> "mode", mode |-> line])]

ModeLine(st, line) ==
    [st EXCEPT !.current_mode = line,
               !.steps = Append(@, [type |-> "mode", mode |-> line])]

SystemLine(st, line) ==
    [st EXCEPT !.steps = Append(@, [type |-> "reboot", target |-> "system"])]

SlotLine(st, line) ==
    [st EXCEPT !.steps = Append(@, [type |-> "set_slot",
                                    slot |-> IF line = "set-a" THEN "a" ELSE "b"])]

\* faulty variant of WipeDataLine: the line emits a step
MutWipeDataStep(st, line) ==
    [st EXCEPT !.steps = Append(@, [type |-> "wipe"])]

WipeDataLine(st, line) == st

PartitionLine(st, line) ==
    LET parts == SplitWs(SubSeq(line, 2, Len(line))) IN
    IF Len(parts) = 0 THEN [st EXCEPT !.raised = TRUE]     \* parts[0]: IndexError
    ELSE LET partition == parts[1] IN
         IF Len(parts) > 1 THEN
            IF parts[2] = "disable" THEN
                [st EXCEPT !.steps = Append(@, [type |-> "flash", partition |-> partition,
                                                disable_avb |-> TRUE, mode |-> st.current_mode])]
            ELSE IF parts[2] = "del" THEN
                [st EXCEPT !.steps = Append(@, [type |-> "delete_logical", partition |-> partition,
                                                mode |-> st.current_mode])]
            ELSE IF parts[2] = "add" /\ Len(parts) > 2 THEN
                [st EXCEPT !.steps = Append(@, [type |-> "create_logical", partition |-> partition,
                                                size |-> parts[3], mode |-> st.current_mode])]
            ELSE st
         ELSE
            [st EXCEPT !.steps = Append(@, [type |-> "flash", partition |-> partition,
                                            disable_avb |-> FALSE, mode |-> st.current_mode])]

\* faulty variant of OtherLine: an unrecognized line raises
MutOtherLineRaises(st, line) == [st EXCEPT !.raised = TRUE]

\* an unrecognized line: it matches no branch of the loop body
OtherLine(st, line) == st

\* one pass of the loop body over a raw line
ParseLine(st, raw) ==
    LET line == Strip(raw) IN
    IF line = "" \/ StartsWith(line, "#") THEN st
    ELSE IF StartsWith(line, "device:") THEN DeviceLine(st, line)
    ELSE IF line = "bootloader" \/ line = "fastbootd" THEN ModeLine(st, line)
    ELSE IF line = "system" THEN SystemLine(st, line)
    ELSE IF line = "set-a" \/ line = "set-b" THEN SlotLine(st, line)
    ELSE IF line = "wipe-data" THEN WipeDataLine(st, line)
    ELSE IF StartsWith(line, "-") THEN PartitionLine(st, line)
    ELSE OtherLine(st, line)

\* for line in lines: an exception leaves the loop
RECURSIVE ParseLoop(_, _)
ParseLoop(lines, st) ==
    IF lines = <<>> \/ st.raised THEN st
    ELSE ParseLoop(Tail(lines), ParseLine(st, Head(lines)))

\* faulty variant of _parse_config: the check of the device list is missing
MutParseNoDeviceCheck(lines) ==
    LET st == ParseLoop(lines, ParseStart) IN
    IF st.raised THEN None
    ELSE [ok |-> TRUE, devices |-> st.devices, steps |-> st.steps]

_parse_config(lines) ==
    LET st == ParseLoop(lines, ParseStart) IN
    IF st.raised THEN None
    ELSE IF st.devices = <<>> THEN None
    ELSE [ok |-> TRUE, devices |-> st.devices, steps |-> st.steps]

-----------------------------------------------------------------------------
(* The fastboot binary and the device, as the program sees them *)

\* how a fastboot invocation can end: exit status 0, exit status not 0,
\* subprocess.TimeoutExpired
CmdResults == {"ok", "fail", "timeout"}

\* stdout of fastboot getvar product
GetvarProductStdout(product, res) ==
    IF res = "ok" THEN "product: " \o product \o "\nFinished. Total time: 0.001s"
    ELSE "getvar:product FAILED (remote: 'unknown command')\nfastboot: error: Command failed"

\* stdout of fastboot getvar is-userspace
IsUserspaceStdout(mode, res) ==
    IF res = "ok" THEN "is-userspace: " \o (IF mode = "fastbootd" THEN "yes" ELSE "no")
                       \o "\nFinished. Total time: 0.001s"
    ELSE "getvar:is-userspace FAILED (remote: 'unknown variable')"

\* a device that is absent keeps fastboot waiting until the timeout
ProbeResults(mode) == IF mode = "none" THEN {"timeout"} ELSE CmdResults

\* (result of a reboot command, mode the device is in afterwards)
RebootOutcomes(target, mode) ==
    {<<"ok", target>>, <<"ok", "none">>, <<"fail", mode>>,
     <<"timeout", target>>, <<"timeout", "none">>}

Cmd(i, args) == [step |-> i, args |-> args]

Log(i, event, what) == [step |-> i, event |-> event, what |-> what]

-----------------------------------------------------------------------------
(* Device identity check at the head of FlashTab._run_flash_plan_in_thread *)

RECURSIVE FirstProductLine(_)
FirstProductLine(lines) ==
    IF lines = <<>> THEN ""
    ELSE IF Contains(Head(lines), "product:") THEN Strip(AfterFirst(Head(lines), ":"))
    ELSE FirstProductLine(Tail(lines))

\* device_product, from the lower-cased output of getvar product
DeviceProduct(stdout) == FirstProductLine(SplitOn(Lower(stdout), "\n"))

\* [d.strip() for d in devices if d and d.strip()]
RECURSIVE ExpectedDevices(_)
ExpectedDevices(devices) ==
    IF devices = <<>> THEN <<>>
    ELSE (IF Strip(Head(devices)) # "" THEN <<Strip(Head(devices))>> ELSE <<>>)
         \o ExpectedDevices(Tail(devices))

\* faulty variant of MatchDevice: the containment is tested the other way round
MutMatchReversed(d, device_product) == Contains(Lower(d), device_product)

MatchDevice(d, device_product) == Contains(device_product, Lower(d))

\* faulty variant of VerifyIdentity: the match is computed and not acted on
MutVerifyNoRaise(devices, product, res) == res # "timeout"

\* TRUE when the try block ends without raising
VerifyIdentity(devices, product, res) ==
    /\ res # "timeout"
    /\ LET device_product == DeviceProduct(GetvarProductStdout(product, res))
           expected_devices == ExpectedDevices(devices)
       IN /\ expected_devices # <<>>
          /\ \E k \in 1..Len(expected_devices) : MatchDevice(expected_devices[k], device_product)

-----------------------------------------------------------------------------
(* Step handlers of the loop of FlashTab._run_flash_plan_in_thread.  Each  *)
(* After... operator says how the handler goes on once its command ended:  *)
(* "next" for the next step of the plan, "raise" for an exception that     *)
(* leaves the executor.                                                    *)

\* current_mode of a mode step, from getvar is-userspace
CurrentMode(mode, res) ==
    IF res = "timeout" THEN "unknown"
    ELSE IF Contains(Lower(IsUserspaceStdout(mode, res)), "yes") THEN "fastbootd"
    ELSE "bootloader"

\* faulty variant of AlreadyInMode: the early continue is missing
MutNeverInMode(current_mode, target_mode) == FALSE

\* if current_mode == target_mode: continue
AlreadyInMode(current_mode, target_mode) == current_mode = target_mode

RebootArgs(target_mode) ==
    IF target_mode = "fastbootd" THEN <<"reboot", "fastboot">> ELSE <<"reboot-bootloader">>

\* the reboot command of a mode step: its result is not read, TimeoutExpired
\* and Exception are caught, and the countdown follows
AfterModeReboot(res) == "next"

IsAb(partition) == EndsWith(partition, "_ab")

\* faulty variant of BasePartition: a slot suffix _a or _b is kept
MutBaseKeepsSlot(partition) ==
    IF EndsWith(partition, "_ab") THEN SubSeq(partition, 1, Len(partition) - 3) ELSE partition

BasePartition(partition) ==
    IF EndsWith(partition, "_ab") THEN SubSeq(partition, 1, Len(partition) - 3)
    ELSE IF EndsWith(partition, "_a") \/ EndsWith(partition, "_b")
         THEN SubSeq(partition, 1, Len(partition) - 2)
    ELSE partition

ImgName(partition) == BasePartition(partition) \o ".img"

\* faulty variant of ImgFound: the lookup always finds a file
MutImgAlwaysFound(img_name, imgs) == TRUE

\* self._images.get(img_name.lower())
ImgFound(img_name, imgs) == Lower(img_name) \in imgs

FlashArgs(target, img_name, disable_avb) ==
    <<"flash", target, img_name>>
    \o (IF disable_avb THEN <<"--disable-verity", "--disable-verification">> ELSE <<>>)

FlashEvent(res) ==
    IF res = "ok" THEN "flash_ok" ELSE IF res = "fail" THEN "flash_fail" ELSE "flash_timeout"

\* faulty variant of AfterFlash: a failed flash leaves the executor
MutAfterFlashRaises(res) == IF res = "ok" THEN "next" ELSE "raise"

\* a flash command of a single-partition step: each outcome is logged
AfterFlash(res) == "next"

\* faulty variant of AfterSlotFlash: a failed slot write leaves the executor
MutAfterSlotFlashRaises(res) == IF res = "ok" THEN "next" ELSE "raise"

\* a flash command of one slot of an _ab step: each outcome is logged
AfterSlotFlash(res) == "next"

\* delete-logical-partition runs outside any try
AfterDeleteLogical(res) == IF res = "timeout" THEN "raise" ELSE "next"

AfterCreateLogical(res) == "next"

CreateEvent(res) ==
    IF res = "ok" THEN "create_ok" ELSE IF res = "fail" THEN "create_fail" ELSE "create_timeout"

\* set_active runs outside any try
AfterSetSlot(res) == IF res = "timeout" THEN "raise" ELSE "next"

\* faulty variant of AfterErase: TimeoutExpired is not caught
MutAfterEraseRaises(res) == IF res = "timeout" THEN "raise" ELSE "next"

\* erase userdata, erase metadata, -w: TimeoutExpired is caught
AfterErase(res) == "next"

EraseEvent(res) == IF res = "timeout" THEN "erase_timeout" ELSE "erase_ok"

\* the final reboot of a reboot-to-system step runs outside any try
AfterRebootSystem(res) == IF res = "timeout" THEN "raise" ELSE "next"

WipeArgs == << <<"erase", "userdata">>, <<"erase", "metadata">>, <<"-w">> >>

-----------------------------------------------------------------------------
(* The device watcher's flag: _DeviceWatcher.pause and _DeviceWatcher.resume *)

\* faulty variant of pause: the flag is left as it is
MutPauseKeeps(paused) == paused

pause(paused) == TRUE

\* faulty variant of resume: the flag is left as it is
MutResumeKeeps(paused) == paused

resume(paused) == FALSE

-----------------------------------------------------------------------------
(* The flash worker: _FlashWorker._flash_scattered and the executor *)

StepEnabled(type) ==
    /\ pc = "steps"
    /\ step_i < Len(plan.steps)
    /\ plan.steps[step_i + 1].type = type

\* faulty variant of Proceed: an exception ends the run without a finished signal
MutProceedNoReport(how) ==
    /\ step_i' = step_i + 1
    /\ progress' = Progress(step_i + 1, Len(plan.steps))
    /\ finished' = finished
    /\ pc' = IF how = "next" THEN "steps" ELSE "done"

\* the handler of step step_i + 1 ended: go on with the loop, or let the
\* exception reach _flash_scattered, which emits finished(False, ...)
Proceed(how) ==
    /\ step_i' = step_i + 1
    /\ progress' = Progress(step_i + 1, Len(plan.steps))
    /\ IF how = "next"
       THEN pc' = "steps" /\ finished' = finished
       ELSE pc' = "done" /\ finished' = Append(finished, FALSE)

\* the handler of step i issued the commands args (a sequence) with the
\* results res, and logged the events ev
Issued(i, args, res, ev) ==
    /\ cmds' = cmds \o [k \in 1..Len(args) |-> Cmd(i, args[k])]
    /\ results' = res
    /\ log' = ev

\* faulty variant of FlashScattered: the product is queried before the images
\* and the config are looked at
MutScatteredQueriesFirst ==
    /\ pc = "scattered"
    /\ plan' = _parse_config(cfgText)
    /\ cmds' = Append(cmds, Cmd(0, <<"getvar", "product">>))
    /\ IF Cardinality(images) = 0 \/ config_path = "None" \/ ~plan'.ok
       THEN pc' = "done" /\ finished' = Append(finished, FALSE)
       ELSE pc' = "steps" /\ finished' = finished
    /\ UNCHANGED <<progress, em, watchVars, threadVars, config_path, keep_root, _cancelled, _paused, cfgText, images,
                   wipe_check, devProduct, queryRes, deviceMode, step_i, results, log, accepted>>

FlashScattered ==
    /\ pc = "scattered"
    /\ IF Cardinality(images) = 0
       THEN /\ plan' = plan
            /\ pc' = "done"
            /\ finished' = Append(finished, FALSE)
       ELSE IF config_path = "None"
       THEN /\ plan' = plan
            /\ pc' = "done"
            /\ finished' = Append(finished, FALSE)
       ELSE /\ plan' = _parse_config(cfgText)
            /\ IF ~plan'.ok
               THEN pc' = "done" /\ finished' = Append(finished, FALSE)
               ELSE pc' = "verify" /\ finished' = finished
    /\ UNCHANGED <<progress, em, watchVars, threadVars, config_path, keep_root, _cancelled, _paused, cfgText, images, wipe_check, devProduct, queryRes, deviceMode,
                   step_i, cmds, results, log, accepted>>

VerifyDevice ==
    /\ pc = "verify"
    /\ \E res \in CmdResults :
        /\ queryRes' = res
        /\ IF VerifyIdentity(plan.devices, devProduct, res)
           THEN /\ accepted' = "yes"
                /\ pc' = "steps"
                /\ Issued(0, << <<"getvar", "product">> >>, <<res>>,
                          <<Log(0, "verify_ok", devProduct)>>)
                /\ finished' = finished
           ELSE /\ accepted' = "no"
                /\ pc' = "done"
                /\ Issued(0, << <<"getvar", "product">> >>, <<res>>,
                          <<Log(0, "verify_fail", devProduct)>>)
                /\ finished' = Append(finished, FALSE)
    /\ UNCHANGED <<progress, em, watchVars, threadVars, config_path, keep_root, _cancelled, _paused, cfgText, plan, images, wipe_check, devProduct, deviceMode, step_i>>

StepMode ==
    /\ StepEnabled("mode")
    /\ LET i == step_i + 1
           target_mode == plan.steps[i].mode
       IN \E probe \in ProbeResults(deviceMode) :
            IF AlreadyInMode(CurrentMode(deviceMode, probe), target_mode)
            THEN /\ Issued(i, << <<"getvar", "is-userspace">> >>, <<probe>>,
                           <<Log(i, "mode_already", target_mode)>>)
                 /\ deviceMode' = deviceMode
                 /\ Proceed("next")
            ELSE \E out \in RebootOutcomes(target_mode, deviceMode) :
                 /\ Issued(i, << <<"getvar", "is-userspace">>, RebootArgs(target_mode) >>,
                           <<probe, out[1]>>,
                           IF AfterModeReboot(out[1]) = "next"
                           THEN <<Log(i, "mode_switched", target_mode)>>
                           ELSE <<Log(i, "mode_failed", target_mode)>>)
                 /\ deviceMode' = out[2]
                 /\ Proceed(AfterModeReboot(out[1]))
    /\ UNCHANGED <<em, watchVars, threadVars, config_path, keep_root, _cancelled, _paused, cfgText, plan, images, wipe_check, devProduct, queryRes, accepted>>

StepFlash ==
    /\ StepEnabled("flash")
    /\ LET i == step_i + 1
           partition == plan.steps[i].partition
           disable_avb == plan.steps[i].disable_avb
           img_name == ImgName(partition)
           slot_a == BasePartition(partition) \o "_a"
           slot_b == BasePartition(partition) \o "_b"
       IN IF ~ImgFound(img_name, images)
          THEN /\ Issued(i, <<>>, <<>>, <<Log(i, "img_missing", img_name)>>)
               /\ Proceed("next")
          ELSE IF IsAb(partition)
          THEN \E ra \in CmdResults :
                 IF AfterSlotFlash(ra) # "next"
                 THEN /\ Issued(i, <<FlashArgs(slot_a, img_name, disable_avb)>>, <<ra>>,
                                <<Log(i, FlashEvent(ra), slot_a)>>)
                      /\ Proceed(AfterSlotFlash(ra))
                 ELSE \E rb \in CmdResults :
                      /\ Issued(i, <<FlashArgs(slot_a, img_name, disable_avb),
                                     FlashArgs(slot_b, img_name, disable_avb)>>,
                                <<ra, rb>>,
                                <<Log(i, FlashEvent(ra), slot_a), Log(i, FlashEvent(rb), slot_b)>>)
                      /\ Proceed(AfterSlotFlash(rb))
          ELSE \E res \in CmdResults :
                 /\ Issued(i, <<FlashArgs(partition, img_name, disable_avb)>>, <<res>>,
                           <<Log(i, FlashEvent(res), partition)>>)
                 /\ Proceed(AfterFlash(res))
    /\ UNCHANGED <<em, watchVars, threadVars, config_path, keep_root, _cancelled, _paused, cfgText, plan, images, wipe_check, devProduct, queryRes, deviceMode, accepted>>

StepDeleteLogical ==
    /\ StepEnabled("delete_logical")
    /\ LET i == step_i + 1
           partition == plan.steps[i].partition
       IN \E res \in CmdResults :
            /\ Issued(i, << <<"delete-logical-partition", partition>> >>, <<res>>, <<>>)
            /\ Proceed(AfterDeleteLogical(res))
    /\ UNCHANGED <<em, watchVars, threadVars, config_path, keep_root, _cancelled, _paused, cfgText, plan, images, wipe_check, devProduct, queryRes, deviceMode, accepted>>

StepCreateLogical ==
    /\ StepEnabled("create_logical")
    /\ LET i == step_i + 1
           partition == plan.steps[i].partition
           size == plan.steps[i].size
       IN \E res \in CmdResults :
            /\ Issued(i, << <<"create-logical-partition", partition, size>> >>, <<res>>,
                      <<Log(i, CreateEvent(res), partition)>>)
            /\ Proceed(AfterCreateLogical(res))
    /\ UNCHANGED <<em, watchVars, threadVars, config_path, keep_root, _cancelled, _paused, cfgText, plan, images, wipe_check, devProduct, queryRes, deviceMode, accepted>>

StepSetSlot ==
    /\ StepEnabled("set_slot")
    /\ LET i == step_i + 1
           slot == plan.steps[i].slot
       IN \E res \in CmdResults :
            /\ Issued(i, << <<"set_active", slot>> >>, <<res>>, <<>>)
            /\ Proceed(AfterSetSlot(res))
    /\ UNCHANGED <<em, watchVars, threadVars, config_path, keep_root, _cancelled, _paused, cfgText, plan, images, wipe_check, devProduct, queryRes, deviceMode, accepted>>

\* the wipe sub-steps from the k-th on, then the reboot: the (commands, results,
\* events, way on) the handler can produce
RECURSIVE WipeThenReboot(_, _)
WipeThenReboot(i, k) ==
    IF k > Len(WipeArgs)
    THEN {[args |-> << <<"reboot">> >>, res |-> <<res>>, log |-> <<>>,
           how |-> AfterRebootSystem(res)] : res \in CmdResults}
    ELSE UNION {
            IF AfterErase(res) # "next"
            THEN {[args |-> <<WipeArgs[k]>>, res |-> <<res>>, log |-> <<>>,
                   how |-> AfterErase(res)]}
            ELSE {[args |-> <<WipeArgs[k]>> \o rest.args,
                   res |-> <<res>> \o rest.res,
                   log |-> <<Log(i, EraseEvent(res), WipeArgs[k][Len(WipeArgs[k])])>> \o rest.log,
                   how |-> rest.how] : rest \in WipeThenReboot(i, k + 1)}
            : res \in CmdResults}

StepReboot ==
    /\ StepEnabled("reboot")
    /\ LET i == step_i + 1
           target == plan.steps[i].target
       IN IF target = "system"
          THEN \E run \in WipeThenReboot(i, IF wipe_check THEN 1 ELSE Len(WipeArgs) + 1) :
                 /\ Issued(i, run.args, run.res, run.log)
                 /\ deviceMode' = IF run.res[Len(run.res)] = "fail" THEN deviceMode ELSE "none"
                 /\ _paused' = _paused
                 /\ Proceed(run.how)
          ELSE IF target = "bootloader"
          THEN \E out \in RebootOutcomes("bootloader", deviceMode) :
                 /\ Issued(i, << <<"reboot-bootloader">> >>, <<out[1]>>,
                           <<Log(i, "reboot_wait", target)>>)
                 /\ deviceMode' = out[2]
                 /\ _paused' = resume(_paused)
                 /\ progress' = Progress(i, Len(plan.steps))
                 /\ pc' = "rebooting"
                 /\ UNCHANGED <<step_i, finished>>
          ELSE /\ Issued(i, <<>>, <<>>, <<>>)
               /\ deviceMode' = deviceMode
               /\ _paused' = _paused
               /\ Proceed("next")
    /\ UNCHANGED <<em, watchVars, threadVars, config_path, keep_root, _cancelled, cfgText, plan, images, wipe_check, devProduct, queryRes, accepted>>

\* the wait of a reboot-to-bootloader step is over: the watcher is paused again
\* and the loop goes on
RebootSettled ==
    /\ pc = "rebooting"
    /\ _paused' = pause(_paused)
    /\ Proceed("next")
    /\ UNCHANGED <<em, watchVars, threadVars, config_path, keep_root, _cancelled, cfgText, plan, images, wipe_check,
                   devProduct, queryRes, deviceMode, cmds, results, log, accepted>>

\* the loop is over: the executor returns and _flash_scattered emits finished(True, ...)
PlanDone ==
    /\ pc = "steps"
    /\ step_i = Len(plan.steps)
    /\ pc' = "done"
    /\ finished' = Append(finished, TRUE)
    /\ UNCHANGED <<progress, em, watchVars, threadVars, config_path, keep_root, _cancelled, _paused, cfgText, plan, images, wipe_check, devProduct, queryRes, deviceMode,
                   step_i, cmds, results, log, accepted>>

-----------------------------------------------------------------------------
(* The tab: FlashTab.start_flash, FlashTab._on_flash_finished, and the request *)
(* to cancel that FlashTab.cleanup passes to _FlashWorker.cancel               *)

\* scattered mode: the device has to be in bootloader or fastbootd; the watcher
\* is paused, then the worker thread is started
start_flash ==
    /\ pc = "idle"
    /\ config_path # "None"
    /\ deviceMode \in {"bootloader", "fastbootd"}
    /\ _flash_thread = "None"
    /\ _paused' = IF _watcher_worker # "None" THEN pause(_paused) ELSE _paused
    /\ _flash_thread' = "thread"
    /\ pc' = "scattered"
    /\ UNCHANGED <<progress, em, watchVars, orphans, config_path, keep_root, _cancelled, cfgText, plan, images, wipe_check, devProduct,
                   queryRes, deviceMode, step_i, cmds, results, log, finished, accepted>>

\* the slot of the worker's finished signal
_on_flash_finished ==
    /\ pc = "done"
    /\ finished # <<>>
    /\ _paused' = IF _watcher_worker # "None" THEN resume(_paused) ELSE _paused
    /\ _flash_thread' = "None"
    /\ pc' = "handled"
    /\ UNCHANGED <<progress, em, watchVars, orphans, config_path, keep_root, _cancelled, cfgText, plan, images, wipe_check, devProduct,
                   queryRes, deviceMode, step_i, cmds, results, log, finished, accepted>>

\* _FlashWorker.cancel, while the executor runs the steps of the plan
cancel ==
    /\ pc = "steps"
    /\ ~_cancelled
    /\ _cancelled' = TRUE
    /\ UNCHANGED <<progress, em, watchVars, threadVars, config_path, keep_root, _paused, cfgText, plan, images, wipe_check, devProduct,
                   queryRes, deviceMode, pc, step_i, cmds, results, log, finished, accepted>>

-----------------------------------------------------------------------------
(* The device watcher: _DeviceWatcher.run and the calls of its flags *)

\* faulty variant of LoopTest: the stop flag is not looked at
MutLoopIgnoresStop(stop) == "check"

\* the test of the while loop of run: where the thread goes next
LoopTest(stop) == IF stop THEN "exited" ELSE "check"

\* faulty variant of current_state: the serial is left out
MutStateModeOnly(mode, ser) == mode \o ":"

\* f"{mode}:{serial}"
current_state(mode, ser) == mode \o ":" \o ser

\* detect_connection_mode raised
Raised == <<"raised", "">>

\* what a probe of the watcher can come back with
Detected(mode, ser) == {<<mode, ser>>, Raised}

\* while not self._stop
WatcherLoop ==
    /\ wpc = "loop"
    /\ wpc' = LoopTest(_stop)
    /\ UNCHANGED <<progress, em, serial, _stop, _last_state, probed, emitted, afterStop,
                   _watcher_worker, threadVars, config_path, keep_root, _cancelled, _paused,
                   cfgText, plan, images, wipe_check, devProduct, queryRes, deviceMode, pc,
                   step_i, cmds, results, log, finished, accepted>>

\* if not self._paused: the probe starts, else the thread goes to sleep
WatcherCheck ==
    /\ wpc = "check"
    /\ IF ~_paused
       THEN /\ wpc' = "probing"
            /\ afterStop' = IF _stop THEN afterStop + 1 ELSE afterStop
       ELSE /\ wpc' = "sleep"
            /\ afterStop' = afterStop
    /\ UNCHANGED <<progress, em, serial, _stop, _last_state, probed, emitted,
                   _watcher_worker, threadVars, config_path, keep_root, _cancelled, _paused,
                   cfgText, plan, images, wipe_check, devProduct, queryRes, deviceMode, pc,
                   step_i, cmds, results, log, finished, accepted>>

\* detect_connection_mode comes back; a state other than the last one is
\* remembered and emitted; an exception is swallowed
WatcherProbed ==
    /\ wpc = "probing"
    /\ \E r \in Detected(deviceMode, serial) :
        /\ probed' = r
        /\ IF r # Raised /\ current_state(r[1], r[2]) # _last_state
           THEN /\ _last_state' = current_state(r[1], r[2])
                /\ emitted' = Append(emitted, r)
           ELSE UNCHANGED <<_last_state, emitted>>
    /\ wpc' = "sleep"
    /\ UNCHANGED <<progress, em, serial, _stop, afterStop,
                   _watcher_worker, threadVars, config_path, keep_root, _cancelled, _paused,
                   cfgText, plan, images, wipe_check, devProduct, queryRes, deviceMode, pc,
                   step_i, cmds, results, log, finished, accepted>>

\* the sleep of 20 x 0.1 s, left early when _stop is set; either way the
\* thread is back at the test of the while loop
WatcherSleep ==
    /\ wpc = "sleep"
    /\ wpc' = "loop"
    /\ UNCHANGED <<progress, em, serial, _stop, _last_state, probed, emitted, afterStop,
                   _watcher_worker, threadVars, config_path, keep_root, _cancelled, _paused,
                   cfgText, plan, images, wipe_check, devProduct, queryRes, deviceMode, pc,
                   step_i, cmds, results, log, finished, accepted>>

WatcherStep == WatcherLoop \/ WatcherCheck \/ WatcherProbed \/ WatcherSleep

\* a caller (start_flash, the executor) calls pause() on the watcher
PauseCalled ==
    /\ ~_paused
    /\ _paused' = pause(_paused)
    /\ UNCHANGED <<progress, em, watchVars, threadVars, config_path, keep_root, _cancelled,
                   cfgText, plan, images, wipe_check, devProduct, queryRes, deviceMode, pc,
                   step_i, cmds, results, log, finished, accepted>>

\* a caller (_on_flash_finished, the executor) calls resume() on the watcher
ResumeCalled ==
    /\ _paused
    /\ _paused' = resume(_paused)
    /\ UNCHANGED <<progress, em, watchVars, threadVars, config_path, keep_root, _cancelled,
                   cfgText, plan, images, wipe_check, devProduct, queryRes, deviceMode, pc,
                   step_i, cmds, results, log, finished, accepted>>

\* stop() sets the flag; the tab then drops the watcher
StopWatcher ==
    /\ _stop' = (_watcher_worker # "None" \/ _stop)
    /\ _watcher_worker' = "None"

_stop_device_watcher ==
    /\ _watcher_worker # "None"
    /\ StopWatcher
    /\ UNCHANGED <<progress, em, serial, _last_state, wpc, probed, emitted, afterStop,
                   threadVars, config_path, keep_root, _cancelled, _paused,
                   cfgText, plan, images, wipe_check, devProduct, queryRes, deviceMode, pc,
                   step_i, cmds, results, log, finished, accepted>>

\* states the connection of the device goes through
ConnStates ==
    {<<"none", "">>, <<"bootloader", "abc">>, <<"bootloader", "x:1">>, <<"system", "abc">>}

\* the device is plugged, unplugged, rebooted or replaced
DeviceChanges ==
    /\ Len(emitted) < MaxEmit
    /\ \E c \in ConnStates :
        /\ c # <<deviceMode, serial>>
        /\ deviceMode' = c[1]
        /\ serial' = c[2]
    /\ UNCHANGED <<progress, em, _stop, _last_state, wpc, probed, emitted, afterStop,
                   _watcher_worker, threadVars, config_path, keep_root, _cancelled, _paused,
                   cfgText, plan, images, wipe_check, devProduct, queryRes, pc,
                   step_i, cmds, results, log, finished, accepted>>

-----------------------------------------------------------------------------
(* FlashTab.cleanup *)

WorkerBusy == pc \in {"scattered", "verify", "steps", "rebooting"}

\* the watcher is stopped; a running flash thread is asked to quit and waited
\* for 3 s, then the tab forgets it, whether or not it has ended. The model
\* follows the worker the tab refers to: a worker dropped while busy is counted
\* in orphans (it runs on: nothing makes it stop, _cancelled is never read), and
\* the variables of the worker are those of no worker again.
cleanup ==
    /\ orphans < MaxOrphans
    /\ StopWatcher
    /\ IF _flash_thread # "None"
       THEN /\ _cancelled' = ~WorkerBusy
            /\ _flash_thread' = "None"
            /\ IF WorkerBusy
               THEN /\ orphans' = orphans + 1
                    /\ pc' = "idle"
                    /\ plan' = None
                    /\ queryRes' = "none"
                    /\ step_i' = 0
                    /\ results' = <<>>
                    /\ log' = <<>>
                    /\ accepted' = "pending"
               ELSE UNCHANGED <<orphans, pc, plan, queryRes, step_i, results, log, accepted>>
       ELSE UNCHANGED <<_cancelled, _flash_thread, orphans, pc, plan, queryRes, step_i,
                        results, log, accepted>>
    /\ UNCHANGED <<progress, em, serial, _last_state, wpc, probed, emitted, afterStop,
                   config_path, keep_root, _paused, cfgText, images, wipe_check,
                   devProduct, deviceMode, cmds, finished>>

-----------------------------------------------------------------------------
(* _ensure_mode: the mode transition with its settle delay and its polling *)

NoCall == [at |-> "none", target_mode |-> "None", current |-> "None", i |-> 0, ret |-> "None"]

\* probes of the polling loop: for i in range(10)
PollBudget == 10

\* _device_mode(): 'yes' in the output of getvar is-userspace is fastbootd, any
\* other output is bootloader, an exception (the 5 s timeout) is unknown
DeviceModeTable ==
    [mode \in {"bootloader", "fastbootd", "none"} |->
        {CurrentMode(mode, r) : r \in ProbeResults(mode)}]

_device_mode(mode) == DeviceModeTable[mode]

IsUserspaceProbe == Cmd(0, <<"getvar", "is-userspace">>)

RebootCmd(target) ==
    Cmd(0, <<"reboot", IF target = "fastbootd" THEN "fastboot" ELSE target>>)

\* faulty variant of PollHit: any mode that answers counts
MutPollHitAny(cur, target) == cur # "unknown"

\* the comparison of a probed mode with the target
PollHit(cur, target) == cur = target

\* current = self._device_mode(); if current == target_mode: return True
EnsureEntry ==
    /\ em.at = "entry"
    /\ \E cur \in _device_mode(deviceMode) :
        em' = IF PollHit(cur, em.target_mode)
              THEN [em EXCEPT !.current = cur, !.at = "ret", !.ret = "True"]
              ELSE IF em.target_mode \in {"fastbootd", "bootloader"}
              THEN [em EXCEPT !.current = cur, !.at = "reboot"]
              ELSE [em EXCEPT !.current = cur, !.at = "ret", !.ret = "False"]
    /\ cmds' = Append(cmds, IsUserspaceProbe)
    /\ UNCHANGED <<progress, watchVars, threadVars, config_path, keep_root, _cancelled,
                   _paused, cfgText, plan, images, wipe_check, devProduct, queryRes,
                   deviceMode, pc, step_i, results, log, finished, accepted>>

\* _run_fastboot(['reboot', ...]); if not success: return False
EnsureReboot ==
    /\ em.at = "reboot"
    /\ \E out \in RebootOutcomes(em.target_mode, deviceMode) :
        /\ results' = <<out[1]>>
        /\ deviceMode' = out[2]
        /\ em' = IF out[1] = "ok"
                 THEN [em EXCEPT !.at = "settle"]
                 ELSE [em EXCEPT !.at = "ret", !.ret = "False"]
    /\ cmds' = Append(cmds, RebootCmd(em.target_mode))
    /\ UNCHANGED <<progress, watchVars, threadVars, config_path, keep_root, _cancelled,
                   _paused, cfgText, plan, images, wipe_check, devProduct, queryRes,
                   pc, step_i, log, finished, accepted>>

\* time.sleep(3)
EnsureSettle ==
    /\ em.at = "settle"
    /\ em' = [em EXCEPT !.at = "poll"]
    /\ UNCHANGED <<progress, watchVars, threadVars, config_path, keep_root, _cancelled,
                   _paused, cfgText, plan, images, wipe_check, devProduct, queryRes,
                   deviceMode, pc, step_i, cmds, results, log, finished, accepted>>

\* if self._device_mode() == target: return True
EnsurePoll ==
    /\ em.at = "poll"
    /\ \E cur \in _device_mode(deviceMode) :
        em' = IF PollHit(cur, em.target_mode)
              THEN [em EXCEPT !.current = cur, !.at = "ret", !.ret = "True"]
              ELSE [em EXCEPT !.current = cur, !.at = "sleep"]
    /\ cmds' = Append(cmds, IsUserspaceProbe)
    /\ UNCHANGED <<progress, watchVars, threadVars, config_path, keep_root, _cancelled,
                   _paused, cfgText, plan, images, wipe_check, devProduct, queryRes,
                   deviceMode, pc, step_i, results, log, finished, accepted>>

\* time.sleep(1), then the next i of range(10), or return False after the loop
EnsureSleep ==
    /\ em.at = "sleep"
    /\ em' = IF em.i + 1 < PollBudget
             THEN [em EXCEPT !.i = em.i + 1, !.at = "poll"]
             ELSE [em EXCEPT !.i = em.i + 1, !.at = "ret", !.ret = "False"]
    /\ UNCHANGED <<progress, watchVars, threadVars, config_path, keep_root, _cancelled,
                   _paused, cfgText, plan, images, wipe_check, devProduct, queryRes,
                   deviceMode, pc, step_i, cmds, results, log, finished, accepted>>

EnsureStep == EnsureEntry \/ EnsureReboot \/ EnsureSettle \/ EnsurePoll \/ EnsureSleep

\* the device goes down and comes up while the transition waits for it
DeviceTurns ==
    /\ em.at \in {"settle", "poll", "sleep"}
    /\ \E m \in {"bootloader", "fastbootd", "none"} \ {deviceMode} : deviceMode' = m
    /\ UNCHANGED <<progress, em, watchVars, threadVars, config_path, keep_root, _cancelled,
                   _paused, cfgText, plan, images, wipe_check, devProduct, queryRes,
                   pc, step_i, cmds, results, log, finished, accepted>>

\* what every run starts with besides the worker: a watcher that runs, a device
\* with a serial, no dropped worker, no mode transition under way
InitTab ==
    /\ serial = "abc"
    /\ _stop = FALSE
    /\ _last_state = ""
    /\ wpc = "loop"
    /\ probed = <<>>
    /\ emitted = <<>>
    /\ afterStop = 0
    /\ _watcher_worker = "watcher"
    /\ orphans = 0
    /\ em = NoCall

-----------------------------------------------------------------------------
(* Inputs *)

SeqsUpTo(S, n) == UNION {[1..k -> S] : k \in 0..n}

\* step lines of the configs of a plan run; recovery.img is in no image set
BodyLines ==
    {"bootloader", "fastbootd", "-boot", "-boot_a", "-recovery", "-vbmeta_ab",
     "-vbmeta_ab disable",
     "-odm_a del", "-odm_a add 512M", "set-a", "system", "wipe-data"}

\* configs of a plan run: a device: line and up to MaxBody lines; and two
\* configs that do not parse
RunTexts ==
    {<<"device:foo">> \o body : body \in SeqsUpTo(BodyLines, MaxBody)}
    \cup {<<"bootloader", "-boot">>, <<"device:foo", "-">>}

\* what _scan_images can find in the image directory
ImageSets == {{"boot.img", "vbmeta.img"}, {}}

\* lines of the configs given to the parser alone
ConfigLines ==
    {"device:foo", "device: Bar ", "device:", "# note", "bootloader", " fastbootd",
     "system", "set-b", "wipe-data", "-boot", "-vbmeta_ab disable", "-odm_a del",
     "-odm_a add 512M", "-odm_a add", "-boot bogus", "-boot disable now", "-", "flash boot"}

\* device ids a config declares and product names a device reports
DeclaredIds == {"foo", "FOO", "alpha", "Foo123-global"}

Products == {"Foo123", "foo", "gamma", "fo", "ALPHA_eu"}

Init ==
    /\ cfgText \in RunTexts
    /\ images \in ImageSets
    /\ wipe_check \in BOOLEAN
    /\ keep_root \in BOOLEAN
    /\ devProduct \in {"Foo123", "gamma"}
    /\ deviceMode \in {"bootloader", "fastbootd"}
    /\ plan = None
    /\ queryRes = "none"
    /\ pc = "idle"
    /\ _cancelled = FALSE
    /\ config_path \in {"None", "plan.txt"}
    /\ progress = <<>>
    /\ _paused = FALSE
    /\ step_i = 0
    /\ cmds = <<>>
    /\ results = <<>>
    /\ log = <<>>
    /\ finished = <<>>
    /\ accepted = "pending"
    /\ InitTab
    /\ _flash_thread = IF pc = "idle" THEN "None" ELSE "thread"

Next ==
    \/ start_flash
    \/ cancel
    \/ _on_flash_finished
    \/ FlashScattered
    \/ VerifyDevice
    \/ StepMode
    \/ StepFlash
    \/ StepDeleteLogical
    \/ StepCreateLogical
    \/ StepSetSlot
    \/ StepReboot
    \/ PlanDone

Spec == Init /\ [][Next]_vars

-----------------------------------------------------------------------------
(* The parser alone, over all texts of up to MaxLines lines *)

ParseConfig ==
    /\ pc = "parse"
    /\ plan' = _parse_config(cfgText)
    /\ pc' = "parsed"
    /\ UNCHANGED <<progress, em, watchVars, threadVars, config_path, keep_root, _cancelled, _paused, cfgText, images, wipe_check, devProduct, queryRes, deviceMode,
                   step_i, cmds, results, log, finished, accepted>>

InitParse ==
    /\ cfgText \in SeqsUpTo(ConfigLines, MaxLines)
    /\ images = {}
    /\ wipe_check = FALSE
    /\ keep_root = FALSE
    /\ _cancelled = FALSE
    /\ config_path = "plan.txt"
    /\ progress = <<>>
    /\ _paused = FALSE
    /\ devProduct = ""
    /\ deviceMode = "bootloader"
    /\ plan = None
    /\ queryRes = "none"
    /\ pc = "parse"
    /\ step_i = 0
    /\ cmds = <<>>
    /\ results = <<>>
    /\ log = <<>>
    /\ finished = <<>>
    /\ accepted = "pending"
    /\ InitTab
    /\ _flash_thread = IF pc = "idle" THEN "None" ELSE "thread"

NextParse == ParseConfig

SpecParse == InitParse /\ [][NextParse]_vars

-----------------------------------------------------------------------------
(* The identity check alone, over declared ids and reported products *)

InitVerify ==
    /\ cfgText = <<>>
    /\ images = {"boot.img"}
    /\ wipe_check = FALSE
    /\ keep_root = FALSE
    /\ _cancelled = FALSE
    /\ config_path = "plan.txt"
    /\ progress = <<>>
    /\ _paused = TRUE
    /\ devProduct \in Products
    /\ deviceMode = "bootloader"
    /\ plan \in {[ok |-> TRUE, devices |-> d, steps |-> <<>>] :
                    d \in SeqsUpTo(DeclaredIds, MaxDevices) \ {<<>>}}
    /\ queryRes = "none"
    /\ pc = "verify"
    /\ step_i = 0
    /\ cmds = <<>>
    /\ results = <<>>
    /\ log = <<>>
    /\ finished = <<>>
    /\ accepted = "pending"
    /\ InitTab
    /\ _flash_thread = IF pc = "idle" THEN "None" ELSE "thread"

NextVerify == VerifyDevice \/ PlanDone

SpecVerify == InitVerify /\ [][NextVerify]_vars

-----------------------------------------------------------------------------
(* The flash step alone, over partition tokens and image directories *)

\* partition tokens of a flash step
Tokens == {"boot", "boot_a", "boot_b", "boot_ab", "vbmeta_ab", "super", "Boot_B",
           "odm_a_ab", "tab", "recovery_a"}

FlashImageSets ==
    {{"boot.img"}, {"boot.img", "vbmeta.img", "super.img", "odm_a.img", "tab.img", "boot_b.img"}}

InitFlash ==
    /\ cfgText = <<>>
    /\ images \in FlashImageSets
    /\ wipe_check = FALSE
    /\ keep_root = FALSE
    /\ _cancelled = FALSE
    /\ config_path = "plan.txt"
    /\ progress = <<>>
    /\ _paused = TRUE
    /\ devProduct = "Foo123"
    /\ deviceMode = "bootloader"
    /\ plan \in {[ok |-> TRUE, devices |-> <<"foo">>,
                   steps |-> <<[type |-> "flash", partition |-> t, disable_avb |-> d,
                                mode |-> "None"]>>] : t \in Tokens, d \in BOOLEAN}
    /\ queryRes = "ok"
    /\ pc = "steps"
    /\ step_i = 0
    /\ cmds = <<>>
    /\ results = <<>>
    /\ log = <<>>
    /\ finished = <<>>
    /\ accepted = "yes"
    /\ InitTab
    /\ _flash_thread = IF pc = "idle" THEN "None" ELSE "thread"

NextFlash == StepFlash \/ PlanDone

SpecFlash == InitFlash /\ [][NextFlash]_vars

-----------------------------------------------------------------------------
(* The worker alone, as _FlashWorker.run finds it whatever it was built with *)

WorkerTexts ==
    {<<"device:foo">> \o body : body \in SeqsUpTo(BodyLines, 1)}
    \cup {<<"bootloader", "-boot">>, <<"device:foo", "-">>}

InitWorker ==
    /\ cfgText \in WorkerTexts
    /\ images \in ImageSets
    /\ wipe_check = TRUE
    /\ keep_root = FALSE
    /\ _cancelled = FALSE
    /\ config_path \in {"None", "plan.txt"}
    /\ progress = <<>>
    /\ _paused = TRUE
    /\ devProduct \in {"Foo123", "gamma"}
    /\ deviceMode \in {"bootloader", "fastbootd"}
    /\ plan = None
    /\ queryRes = "none"
    /\ pc = "scattered"
    /\ step_i = 0
    /\ cmds = <<>>
    /\ results = <<>>
    /\ log = <<>>
    /\ finished = <<>>
    /\ accepted = "pending"
    /\ InitTab
    /\ _flash_thread = IF pc = "idle" THEN "None" ELSE "thread"

NextWorker ==
    \/ FlashScattered
    \/ VerifyDevice
    \/ StepMode
    \/ StepFlash
    \/ StepDeleteLogical
    \/ StepCreateLogical
    \/ StepSetSlot
    \/ StepReboot
    \/ PlanDone

SpecWorker == InitWorker /\ [][NextWorker]_vars

-----------------------------------------------------------------------------
(* The executor alone, over the plans it can be given: _run_flash_plan_in_thread *)
(* takes any plan, also one with a reboot-to-bootloader step                    *)

ExecSteps ==
    {[type |-> "mode", mode |-> "fastbootd"],
     [type |-> "flash", partition |-> "boot", disable_avb |-> FALSE, mode |-> "None"],
     [type |-> "delete_logical", partition |-> "odm_a", mode |-> "None"],
     [type |-> "create_logical", partition |-> "odm_a", size |-> "512M", mode |-> "None"],
     [type |-> "set_slot", slot |-> "a"],
     [type |-> "reboot", target |-> "bootloader"],
     [type |-> "reboot", target |-> "system"]}

InitExec ==
    /\ cfgText = <<>>
    /\ images = {"boot.img"}
    /\ wipe_check = FALSE
    /\ keep_root = FALSE
    /\ _cancelled = FALSE
    /\ config_path = "plan.txt"
    /\ progress = <<>>
    /\ _paused = TRUE
    /\ devProduct = "Foo123"
    /\ deviceMode \in {"bootloader", "fastbootd"}
    /\ plan \in {[ok |-> TRUE, devices |-> <<"foo">>, steps |-> st] :
                  st \in SeqsUpTo(ExecSteps, MaxBody)}
    /\ queryRes = "ok"
    /\ pc = "steps"
    /\ step_i = 0
    /\ cmds = <<>>
    /\ results = <<>>
    /\ log = <<>>
    /\ finished = <<>>
    /\ accepted = "yes"
    /\ InitTab
    /\ _flash_thread = IF pc = "idle" THEN "None" ELSE "thread"

NextExec ==
    \/ StepMode
    \/ StepFlash
    \/ StepDeleteLogical
    \/ StepCreateLogical
    \/ StepSetSlot
    \/ StepReboot
    \/ RebootSettled
    \/ PlanDone
    \/ _on_flash_finished

SpecExec == InitExec /\ [][NextExec]_vars

-----------------------------------------------------------------------------
(* A call of _ensure_mode alone; the thread that runs it is scheduled *)

InitEnsure ==
    /\ cfgText = <<>>
    /\ images = {}
    /\ wipe_check = FALSE
    /\ keep_root = FALSE
    /\ _cancelled = FALSE
    /\ config_path = "plan.txt"
    /\ progress = <<>>
    /\ _paused = TRUE
    /\ devProduct = "Foo123"
    /\ deviceMode \in {"bootloader", "fastbootd"}
    /\ plan = None
    /\ queryRes = "none"
    /\ pc = "steps"
    /\ step_i = 0
    /\ cmds = <<>>
    /\ results = <<>>
    /\ log = <<>>
    /\ finished = <<>>
    /\ accepted = "yes"
    /\ serial = "abc"
    /\ _stop = FALSE
    /\ _last_state = ""
    /\ wpc = "loop"
    /\ probed = <<>>
    /\ emitted = <<>>
    /\ afterStop = 0
    /\ _watcher_worker = "watcher"
    /\ orphans = 0
    /\ _flash_thread = "None"
    /\ \E t \in {"fastbootd", "bootloader", "recovery"} :
        em = [NoCall EXCEPT !.at = "entry", !.target_mode = t]

NextEnsure ==
    \/ EnsureEntry
    \/ EnsureReboot
    \/ EnsureSettle
    \/ EnsurePoll
    \/ EnsureSleep
    \/ DeviceTurns

SpecEnsure == InitEnsure /\ [][NextEnsure]_vars /\ WF_vars(EnsureStep)

-----------------------------------------------------------------------------
(* The watcher alone, with the calls of its flags and a device that changes *)

InitWatch ==
    /\ cfgText = <<>>
    /\ images = {}
    /\ wipe_check = FALSE
    /\ keep_root = FALSE
    /\ _cancelled = FALSE
    /\ config_path = "None"
    /\ progress = <<>>
    /\ _paused = FALSE
    /\ devProduct = "Foo123"
    /\ \E c \in ConnStates : deviceMode = c[1] /\ serial = c[2]
    /\ plan = None
    /\ queryRes = "none"
    /\ pc = "idle"
    /\ step_i = 0
    /\ cmds = <<>>
    /\ results = <<>>
    /\ log = <<>>
    /\ finished = <<>>
    /\ accepted = "pending"
    /\ _stop = FALSE
    /\ _last_state = ""
    /\ wpc = "loop"
    /\ probed = <<>>
    /\ emitted = <<>>
    /\ afterStop = 0
    /\ _watcher_worker = "watcher"
    /\ orphans = 0
    /\ _flash_thread = "None"
    /\ em = NoCall

NextWatch ==
    \/ WatcherLoop
    \/ WatcherCheck
    \/ WatcherProbed
    \/ WatcherSleep
    \/ PauseCalled
    \/ ResumeCalled
    \/ _stop_device_watcher
    \/ DeviceChanges

SpecWatch == InitWatch /\ [][NextWatch]_vars

\* the watcher thread is scheduled, and a probe comes back (its commands have
\* timeouts of 2 s)
SpecWatchFair == SpecWatch /\ WF_vars(WatcherStep)

-----------------------------------------------------------------------------
(* The tab with its watcher and its flash worker, over one plan of one flash  *)
(* step: start_flash, the worker, the finished slot and cleanup interleave    *)

InitTabRun ==
    /\ cfgText = <<"device:foo", "-boot">>
    /\ images = {"boot.img"}
    /\ wipe_check = FALSE
    /\ keep_root = FALSE
    /\ _cancelled = FALSE
    /\ config_path = "plan.txt"
    /\ progress = <<>>
    /\ _paused = FALSE
    /\ devProduct = "Foo123"
    /\ deviceMode = "bootloader"
    /\ plan = None
    /\ queryRes = "none"
    /\ pc = "idle"
    /\ step_i = 0
    /\ cmds = <<>>
    /\ results = <<>>
    /\ log = <<>>
    /\ finished = <<>>
    /\ accepted = "pending"
    /\ InitTab
    /\ _flash_thread = "None"

NextTabRun ==
    \/ start_flash
    \/ FlashScattered
    \/ VerifyDevice
    \/ StepFlash
    \/ PlanDone
    \/ _on_flash_finished
    \/ cleanup
    \/ WatcherLoop
    \/ WatcherCheck
    \/ WatcherProbed
    \/ WatcherSleep

SpecTabRun == InitTabRun /\ [][NextTabRun]_vars

-----------------------------------------------------------------------------
(* The step loop alone, over plans of up to MaxSteps steps that are skipped *)

InitProgress ==
    /\ cfgText = <<>>
    /\ images = {"boot.img"}
    /\ wipe_check = FALSE
    /\ keep_root = FALSE
    /\ _cancelled = FALSE
    /\ config_path = "plan.txt"
    /\ progress = <<>>
    /\ _paused = TRUE
    /\ devProduct = "Foo123"
    /\ deviceMode = "bootloader"
    /\ plan \in {[ok |-> TRUE, devices |-> <<"foo">>,
                   steps |-> [k \in 1..n |-> [type |-> "flash", partition |-> "recovery",
                                              disable_avb |-> FALSE, mode |-> "None"]]] :
                  n \in 1..MaxSteps}
    /\ queryRes = "ok"
    /\ pc = "steps"
    /\ step_i = 0
    /\ cmds = <<>>
    /\ results = <<>>
    /\ log = <<>>
    /\ finished = <<>>
    /\ accepted = "yes"
    /\ InitTab
    /\ _flash_thread = IF pc = "idle" THEN "None" ELSE "thread"

NextProgress == StepFlash \/ PlanDone

SpecProgress == InitProgress /\ [][NextProgress]_vars

-----------------------------------------------------------------------------
(* Vocabulary of the properties *)

\* the fastboot commands that change the device
Mutating(args) ==
    args[1] \in {"reboot", "reboot-bootloader", "flash", "delete-logical-partition",
                 "create-logical-partition", "set_active", "erase", "-w"}

\* the latest handler that ran is the one of step step_i, of the given type
HandledType(type) ==
    /\ pc \in {"steps", "done"}
    /\ step_i >= 1
    /\ plan.steps[step_i].type = type

IsCmdOfLastStep(c) == c.step = step_i

\* the commands the latest handler issued
LastCmds == SelectSeq(cmds, IsCmdOfLastStep)

\* the run was aborted and reported as a failure
Aborted == pc = "done" /\ finished = <<FALSE>>

\* the latest handler did not end the run: the loop goes on to the next step,
\* or it was the last step and the run ended with success
Continues ==
    \/ pc = "steps" /\ finished = <<>>
    \/ pc = "done" /\ step_i = Len(plan.steps) /\ finished = <<TRUE>>

\* some declared id, lower-cased, is a substring of the lower-cased product
DeclaredInReported ==
    \E k \in 1..Len(plan.devices) : Contains(Lower(devProduct), Lower(plan.devices[k]))

Keywords == {"bootloader", "fastbootd", "system", "set-a", "set-b", "wipe-data"}

\* -<partition>[ disable|del|add <size>], words after these being ignored
IsPartitionForm(line) ==
    /\ StartsWith(line, "-")
    /\ LET w == SplitWs(SubSeq(line, 2, Len(line))) IN
        \/ Len(w) = 1
        \/ Len(w) >= 2 /\ w[2] \in {"disable", "del"}
        \/ Len(w) >= 3 /\ w[2] = "add"

IsDeviceLine(raw) == StartsWith(Strip(raw), "device:")

HasDeviceLine(text) == \E k \in 1..Len(text) : IsDeviceLine(text[k])

Ignorable(raw) == Strip(raw) = "" \/ StartsWith(Strip(raw), "#")

Recognized(raw) ==
    LET line == Strip(raw) IN
    \/ StartsWith(line, "device:")
    \/ line \in Keywords
    \/ IsPartitionForm(line)

Unrecognized(raw) == ~Ignorable(raw) /\ ~Recognized(raw)

NotUnrecognized(raw) == ~Unrecognized(raw)

IsBareDash(raw) == Strip(raw) = "-"

IsStepLine(raw) ==
    LET line == Strip(raw) IN line \in (Keywords \ {"wipe-data"}) \/ IsPartitionForm(line)

\* the indices of the step lines of text from the k-th line on, in order
RECURSIVE StepLineIdx(_, _)
StepLineIdx(text, k) ==
    IF k > Len(text) THEN <<>>
    ELSE (IF IsStepLine(text[k]) THEN <<k>> ELSE <<>>) \o StepLineIdx(text, k + 1)

\* the mode of the last bootloader/fastbootd line before line k
ModeBefore(text, k) ==
    LET ms == {j \in 1..(k - 1) : Strip(text[j]) \in {"bootloader", "fastbootd"}} IN
    IF ms = {} THEN "None"
    ELSE Strip(text[CHOOSE j \in ms : \A j2 \in ms : j2 <= j])

\* the step the step line k of text stands for
ExpectedStep(text, k) ==
    LET line == Strip(text[k])
        w == SplitWs(SubSeq(line, 2, Len(line)))
        m == ModeBefore(text, k)
    IN CASE line \in {"bootloader", "fastbootd"} -> [type |-> "mode", mode |-> line]
         [] line = "system" -> [type |-> "reboot", target |-> "system"]
         [] line \in {"set-a", "set-b"} -> [type |-> "set_slot", slot |-> SubSeq(line, 5, 5)]
         [] OTHER ->
            IF Len(w) = 1
            THEN [type |-> "flash", partition |-> w[1], disable_avb |-> FALSE, mode |-> m]
            ELSE IF w[2] = "disable"
            THEN [type |-> "flash", partition |-> w[1], disable_avb |-> TRUE, mode |-> m]
            ELSE IF w[2] = "del"
            THEN [type |-> "delete_logical", partition |-> w[1], mode |-> m]
            ELSE [type |-> "create_logical", partition |-> w[1], size |-> w[3], mode |-> m]

NotWipeDataLine(raw) == Strip(raw) # "wipe-data"

InsertAt(text, k, line) == SubSeq(text, 1, k) \o <<line>> \o SubSeq(text, k + 1, Len(text))

-----------------------------------------------------------------------------
(* Properties *)

\* C1: a step is dispatched only after the product query; when no declared id
\* matches the reported product, no step is dispatched, no command that changes
\* the device is issued, and the run ends reported as a failure.
C1_IdentityGate ==
    /\ (pc \in {"steps", "done"} /\ step_i > 0) =>
            (cmds # <<>> /\ cmds[1] = Cmd(0, <<"getvar", "product">>))
    /\ (plan.ok /\ ~DeclaredInReported /\ pc \in {"steps", "done"}) =>
            /\ step_i = 0
            /\ \A k \in 1..Len(cmds) : ~Mutating(cmds[k].args)
            /\ Aborted

C1_Witness ==
    /\ plan.ok /\ ~DeclaredInReported /\ Len(plan.steps) > 0
    /\ pc = "done" /\ queryRes = "ok"
    /\ cmds = <<Cmd(0, <<"getvar", "product">>)>>

\* C2: the identity check accepts exactly when the product query succeeds and
\* some declared id, lower-cased, is a substring of the lower-cased reported
\* product (never the reverse containment); a failed query is a rejection.
C2_AcceptsIffDeclaredInProduct ==
    accepted # "pending" =>
        (accepted = "yes" <=> (queryRes = "ok" /\ DeclaredInReported))

C2_Witness ==
    /\ accepted = "yes"
    /\ devProduct = "Foo123"
    /\ plan.devices = <<"Foo123-global", "FOO">>

\* C3: _parse_config returns a plan only for a text with a device: line, a
\* returned plan has a non-empty devices list, and a text without a device:
\* line gives no plan.
C3_PlanNeedsDevice ==
    pc = "parsed" =>
        /\ plan.ok => (HasDeviceLine(cfgText) /\ plan.devices # <<>>)
        /\ ~HasDeviceLine(cfgText) => plan = None

C3_Witness ==
    /\ pc = "parsed" /\ plan.ok
    /\ plan.devices = <<"foo", "Bar">>

C6_WipeDataLineNoEffect ==
    /\ pc = "verify" =>
            /\ plan = _parse_config(SelectSeq(cfgText, NotWipeDataLine))
            /\ \A k \in 0..Len(cfgText) : _parse_config(InsertAt(cfgText, k, "wipe-data")) = plan
    /\ \A k \in 1..Len(cmds) :
            cmds[k].args[1] \in {"erase", "-w"} =>
                (wipe_check /\ plan.steps[cmds[k].step].type = "reboot")
    /\ HandledType("reboot") =>
            (wipe_check <=> \E k \in 1..Len(LastCmds) : LastCmds[k].args[1] \in {"erase", "-w"})

C6_Witness ==
    /\ \E k \in 1..Len(cfgText) : ~NotWipeDataLine(cfgText[k])
    /\ ~wipe_check
    /\ HandledType("reboot")
    /\ LastCmds = <<Cmd(step_i, <<"reboot">>)>>

\* C7: a mode step that observes the device in the target mode issues no reboot
\* command, leaves the device alone and goes on to the next step.
C7_ModeSwitchIdempotent ==
    [][(/\ StepEnabled("mode")
        /\ step_i' = step_i + 1
        /\ CurrentMode(deviceMode, results'[1]) = plan.steps[step_i + 1].mode)
       => (/\ cmds' = Append(cmds, Cmd(step_i + 1, <<"getvar", "is-userspace">>))
           /\ deviceMode' = deviceMode
           /\ pc' = "steps"
           /\ finished' = finished)]_vars

C7_Witness ==
    /\ HandledType("mode")
    /\ deviceMode = plan.steps[step_i].mode
    /\ LastCmds = <<Cmd(step_i, <<"getvar", "is-userspace">>)>>
    /\ results = <<"ok">>
    /\ pc = "steps" /\ step_i < Len(plan.steps)

\* the latest handler was a mode step whose reboot command failed, or that left
\* the device in another mode than the target
ModeSwitchFailed ==
    /\ HandledType("mode")
    /\ Len(results) = 2
    /\ (results[2] # "ok" \/ deviceMode # plan.steps[step_i].mode)

\* C8: a mode step that does not bring the device to the target mode ends the
\* run: no later step is dispatched and the run is reported as a failure.
C8_ModeFailureFatal == ModeSwitchFailed => Aborted

\* the latest handler was a flash step for a single partition whose flash
\* command failed or timed out
SingleFlashFailed ==
    /\ HandledType("flash")
    /\ ~IsAb(plan.steps[step_i].partition)
    /\ Len(results) = 1
    /\ results[1] \in {"fail", "timeout"}

\* C9: a failed or timed out flash of a single partition is logged and does not
\* end the run: the loop goes on to the next step.
C9_SingleFlashFailureContinues ==
    SingleFlashFailed =>
        /\ Continues
        /\ log = <<Log(step_i, IF results[1] = "fail" THEN "flash_fail" ELSE "flash_timeout",
                       plan.steps[step_i].partition)>>

C9_Witness ==
    /\ SingleFlashFailed
    /\ plan.steps[step_i].partition = "boot_a"
    /\ results = <<"timeout">>
    /\ pc = "steps" /\ step_i < Len(plan.steps)

\* the latest handler was a flash step for an _ab token without AVB-disable,
\* and a slot write failed or timed out
AbFlashFailed ==
    /\ HandledType("flash")
    /\ IsAb(plan.steps[step_i].partition)
    /\ ~plan.steps[step_i].disable_avb
    /\ \E k \in 1..Len(results) : results[k] # "ok"

\* C10: a failed slot write of an _ab flash without AVB-disable ends the run:
\* after a failed write to slot a, slot b is not written and no later step runs.
C10_AbFailureAborts ==
    AbFlashFailed =>
        /\ Aborted
        /\ results[1] # "ok" => Len(results) = 1

\* the argument lists of the commands the latest handler issued
LastArgs == [k \in 1..Len(LastCmds) |-> LastCmds[k].args]

\* the token of the latest flash step without its suffix _ab
AbBase == SubSeq(plan.steps[step_i].partition, 1, Len(plan.steps[step_i].partition) - 3)

\* the latest handler was a flash step for an _ab token with AVB-disable whose
\* image is in the image directory
AbAvbFlashHandled ==
    /\ HandledType("flash")
    /\ EndsWith(plan.steps[step_i].partition, "_ab")
    /\ plan.steps[step_i].disable_avb
    /\ (AbBase \o ".img") \in images

\* C11: an _ab flash step with AVB-disable whose image exists writes slot a and
\* then slot b, both with verification disabled, whatever the result of either
\* write, and the run goes on.
C11_AbAvbBothSlotsAttempted ==
    AbAvbFlashHandled =>
        /\ LastArgs =
            << <<"flash", AbBase \o "_a", AbBase \o ".img",
                 "--disable-verity", "--disable-verification">>,
               <<"flash", AbBase \o "_b", AbBase \o ".img",
                 "--disable-verity", "--disable-verification">> >>
        /\ Len(results) = 2
        /\ Continues

C11_Witness ==
    /\ AbAvbFlashHandled
    /\ results = <<"timeout", "fail">>
    /\ pc = "steps" /\ step_i < Len(plan.steps)

\* C12: with keep-ROOT set, no flash command for boot, boot_a or boot_b is
\* issued during a run.
C12_KeepRootSkipsBoot ==
    keep_root =>
        \A k \in 1..Len(cmds) :
            cmds[k].args[1] = "flash" => cmds[k].args[2] \notin {"boot", "boot_a", "boot_b"}

\* the latest handler was a flash step whose image <base>.img is absent from the
\* scanned images
ImgMissingHandled ==
    /\ HandledType("flash")
    /\ LET t == plan.steps[step_i].partition
           base == IF EndsWith(t, "_ab") THEN SubSeq(t, 1, Len(t) - 3)
                   ELSE IF EndsWith(t, "_a") \/ EndsWith(t, "_b") THEN SubSeq(t, 1, Len(t) - 2)
                   ELSE t
       IN (base \o ".img") \notin images

\* C13: a flash step whose image is absent issues no command, logs the warning
\* and does not end the run: the loop goes on, and a run that ends does so
\* with success.
C13_MissingImageSkipped ==
    ImgMissingHandled =>
        /\ LastCmds = <<>>
        /\ Len(log) = 1 /\ log[1].event = "img_missing" /\ log[1].step = step_i
        /\ Continues

C13_Witness ==
    /\ ImgMissingHandled
    /\ plan.steps[step_i].partition = "recovery"
    /\ images # {}
    /\ pc = "steps" /\ step_i < Len(plan.steps)

\* the targets and the image key the token t stands for
ExpectedTargets(t) ==
    IF EndsWith(t, "_ab")
    THEN <<SubSeq(t, 1, Len(t) - 3) \o "_a", SubSeq(t, 1, Len(t) - 3) \o "_b">>
    ELSE <<t>>

ExpectedImgKey(t) ==
    (IF EndsWith(t, "_ab") THEN SubSeq(t, 1, Len(t) - 3)
     ELSE IF EndsWith(t, "_a") \/ EndsWith(t, "_b") THEN SubSeq(t, 1, Len(t) - 2)
     ELSE t) \o ".img"

\* C14: a token ending in _ab stands for the two targets <base>_a and <base>_b,
\* a token ending in _a or _b for that one target, both with the image
\* <base>.img; a token without suffix stands for itself with <token>.img.  The
\* flash commands of a step are those of its targets, in order, each with that
\* image; none is issued when the image is absent.
C14_PartitionResolution ==
    (HandledType("flash") /\ step_i = 1) =>
        LET t == plan.steps[1].partition IN
        IF Lower(ExpectedImgKey(t)) \in images
        THEN /\ [k \in 1..Len(LastArgs) |-> LastArgs[k][2]] = ExpectedTargets(t)
             /\ \A k \in 1..Len(LastArgs) :
                    LastArgs[k][1] = "flash" /\ LastArgs[k][3] = ExpectedImgKey(t)
        ELSE /\ LastArgs = <<>>
             /\ log = <<Log(1, "img_missing", ExpectedImgKey(t))>>

C14_Witness ==
    /\ HandledType("flash")
    /\ plan.steps[1].partition = "odm_a_ab"
    /\ LastArgs = << <<"flash", "odm_a_a", "odm_a.img">>, <<"flash", "odm_a_b", "odm_a.img">> >>

\* the latest handler was a delete-logical or create-logical step whose command
\* failed or timed out
LogicalStepFailed ==
    /\ (HandledType("delete_logical") \/ HandledType("create_logical"))
    /\ Len(results) = 1
    /\ results[1] \in {"fail", "timeout"}

\* C15: a failed or timed out delete-logical or create-logical step does not
\* end the run: the loop goes on to the next step.
C15_LogicalFailureContinues == LogicalStepFailed => Continues

\* the latest handler was a set-slot step whose command failed or timed out
SetSlotFailed ==
    /\ HandledType("set_slot")
    /\ Len(results) = 1
    /\ results[1] \in {"fail", "timeout"}

\* C16: a failed or timed out set-slot step does not end the run: the loop goes
\* on to the next step, and a run it ends is reported as a success.
C16_SetSlotFailureContinues == SetSlotFailed => Continues

\* C17: a reboot-to-system step with the wipe toggle set issues erase userdata,
\* erase metadata, -w and reboot, in this order, whatever the results of the
\* first three; with the toggle clear it issues reboot alone.
C17_WipeThenRebootOrder ==
    (HandledType("reboot") /\ plan.steps[step_i].target = "system") =>
        IF wipe_check
        THEN LastArgs = << <<"erase", "userdata">>, <<"erase", "metadata">>, <<"-w">>, <<"reboot">> >>
        ELSE LastArgs = << <<"reboot">> >>

C17_Witness ==
    /\ HandledType("reboot")
    /\ wipe_check
    /\ results = <<"timeout", "fail", "timeout", "ok">>
    /\ Len(LastArgs) = 4

\* the steps whose outcome the run is to tolerate
TolerantTypes == {"flash", "delete_logical", "create_logical", "set_slot"}

\* C18: a run of a plan of flash, logical-partition and set-slot steps (no mode
\* switch to fail) whose identity check passed ends with every step dispatched,
\* the commands in the order of the steps, and reported as a success.
C18_AllStepsThenSuccess ==
    (/\ pc \in {"done", "handled"}
     /\ accepted = "yes"
     /\ \A k \in 1..Len(plan.steps) : plan.steps[k].type \in TolerantTypes) =>
        /\ step_i = Len(plan.steps)
        /\ \A k \in 1..(Len(cmds) - 1) : cmds[k].step <= cmds[k + 1].step
        /\ finished = <<TRUE>>

\* C19: once cancellation is requested, no further step is dispatched.
C19_CancelStopsAtBoundary ==
    [][(_cancelled /\ pc = "steps") => step_i' = step_i]_vars

\* C20: the watcher is paused while the worker runs, and is not paused once
\* the finished signal has been handled, however the run ended.
C20_WatcherPausedDuringRun ==
    /\ pc \in {"scattered", "verify", "steps", "done"} => _paused
    /\ pc = "handled" => ~_paused

C20_Witness ==
    /\ pc = "handled"
    /\ accepted = "yes"
    /\ finished = <<FALSE>>
    /\ ~_paused

\* a partition line that stands for no step: a bare "-", -<partition> add
\* without a size, -<partition> with an unknown modifier
Malformed(raw) == StartsWith(Strip(raw), "-") /\ ~IsPartitionForm(Strip(raw))

NotMalformed(raw) == ~Malformed(raw)

\* C30: the malformed partition lines all have the same outcome, none
\* discarding what the other lines give: the result is the one of the text
\* without them.
C30_MalformedLinesUniform ==
    pc = "parsed" => plan = _parse_config(SelectSeq(cfgText, NotMalformed))

\* C23: the progress of step i of N is (i, N, floor(100 * i / N)), also for a
\* step that is skipped.
C23_ProgressIsFloorPercent ==
    (pc \in {"steps", "done"} /\ step_i >= 1) =>
        progress = <<step_i, Len(plan.steps), (100 * step_i) \div Len(plan.steps)>>

\* C24: a run of the worker emits no finished signal while it runs and exactly
\* one when it has ended, however it ends.
C24_ExactlyOneFinished ==
    /\ pc \in {"scattered", "verify", "steps"} => finished = <<>>
    /\ pc = "done" => Len(finished) = 1

C24_Witness ==
    /\ pc = "done"
    /\ accepted = "yes"
    /\ step_i >= 1
    /\ finished = <<FALSE>>

\* the scan found no image, no config is selected, or the config gives no plan
PreflightFails ==
    images = {} \/ config_path = "None" \/ ~_parse_config(cfgText).ok

\* C29: when the scan finds no image, no config is selected or the config gives
\* no plan, the worker ends with a failure and no fastboot command at all.
C29_PreflightFailureNoCommand ==
    PreflightFails =>
        /\ cmds = <<>>
        /\ pc \in {"scattered", "done"}
        /\ pc = "done" => finished = <<FALSE>>

C29_Witness ==
    /\ pc = "done"
    /\ config_path = "None"
    /\ images # {}
    /\ _parse_config(cfgText).ok
    /\ finished = <<FALSE>>

\* C21: while the executor runs, the watcher is paused at the dispatch of every
\* step and when the loop is over; it is un-paused only within a
\* reboot-to-bootloader step, after the reboot command of that step was issued.
C21_PausedAtEveryDispatch ==
    /\ pc \in {"steps", "done"} => _paused
    /\ pc = "rebooting" =>
            /\ ~_paused
            /\ plan.steps[step_i + 1] = [type |-> "reboot", target |-> "bootloader"]
            /\ cmds # <<>>
            /\ cmds[Len(cmds)] = Cmd(step_i + 1, <<"reboot-bootloader">>)

C21_Witness ==
    /\ pc = "steps"
    /\ _paused
    /\ step_i = 1 /\ Len(plan.steps) = 2
    /\ plan.steps[1] = [type |-> "reboot", target |-> "bootloader"]
    /\ cmds = <<Cmd(1, <<"reboot-bootloader">>)>>

\* the commands of a call of _ensure_mode after the first two
PollsIssued == IF Len(cmds) > 2 THEN Len(cmds) - 2 ELSE 0

C25_Safety ==
    /\ cmds # <<>> => cmds[1] = IsUserspaceProbe
    /\ \A k \in 2..Len(cmds) :
            IF k = 2 THEN cmds[k] = RebootCmd(em.target_mode) ELSE cmds[k] = IsUserspaceProbe
    /\ PollsIssued <= PollBudget
    /\ em.ret = "True" => em.current = em.target_mode
    /\ em.at = "sleep" \/ (em.at = "poll" /\ em.i > 0) =>
            /\ em.current # em.target_mode
            /\ PollsIssued = em.i + (IF em.at = "sleep" THEN 1 ELSE 0)
    /\ em.ret = "False" =>
            \/ Len(cmds) = 1 /\ em.target_mode \notin {"fastbootd", "bootloader"}
            \/ Len(cmds) = 2 /\ results # <<"ok">>
            \/ PollsIssued = PollBudget /\ em.current # em.target_mode /\ results = <<"ok">>

\* C25: a call of _ensure_mode returns; the first command is the current-mode
\* check, the second the reboot command, every later one a probe; at most 10
\* probes follow the reboot; True is returned at the first probe that observes
\* the target, False after the 10th probe that does not (or at once when the
\* reboot command fails).
C25_EnsureModeTerminates == <>(em.ret # "None") /\ []C25_Safety

C25_Witness ==
    /\ em.ret = "False"
    /\ PollsIssued = PollBudget
    /\ deviceMode # em.target_mode

\* a probe of the watcher comes back in this step
ProbeReturns == wpc = "probing" /\ wpc' # "probing"

\* the pair the probe came back with differs from the pair emitted last
DiffersFromLastEmission ==
    /\ probed' # Raised
    /\ emitted = <<>> \/ probed' # emitted[Len(emitted)]

\* C27: no two consecutive status_changed emissions carry the same (mode,
\* serial) pair; emissions are made only when a probe comes back, and a probe
\* that comes back emits its pair exactly when the pair differs from the one
\* emitted last (so a change made while the watcher was paused is emitted by
\* the first probe after resume).
C27_EmitsOnChangeOnly ==
    /\ [](\A k \in 1..(Len(emitted) - 1) : emitted[k] # emitted[k + 1])
    /\ [][emitted' # emitted => ProbeReturns]_vars
    /\ [][ProbeReturns =>
            IF DiffersFromLastEmission
            THEN emitted' = Append(emitted, probed')
            ELSE emitted' = emitted]_vars

C27_Witness ==
    /\ emitted = << <<"bootloader", "abc">>, <<"bootloader", "x:1">> >>
    /\ probed = <<"bootloader", "x:1">>
    /\ _paused

\* the watcher starts a probe in this step
ProbeStarts == wpc # "probing" /\ wpc' = "probing"

\* C28 as stated: once stop() has been called the run loop exits and no probe
\* is started any more.
C28_NoProbeAfterStop ==
    /\ _stop ~> wpc = "exited"
    /\ [][_stop => ~ProbeStarts]_vars

\* C28, amended: once stop() has been called the run loop exits, paused or
\* not and whether or not a probe raises; it exits only after stop(), and at
\* most one probe is started after stop(): the one of a thread that had passed
\* the test of the while loop when stop() was called.
C28_ExitsAfterAtMostOneProbe ==
    /\ _stop ~> wpc = "exited"
    /\ [](wpc = "exited" => _stop)
    /\ [](afterStop <= 1)
    /\ [][_stop /\ ProbeStarts => wpc = "check" /\ afterStop = 0]_vars

C28_Witness ==
    /\ wpc = "exited"
    /\ afterStop = 1
    /\ probed = Raised

\* worker threads that are executing a flash plan
ActiveExecutions == orphans + (IF WorkerBusy THEN 1 ELSE 0)

\* C22: at most one flash plan execution is active at any time, under every
\* interleaving of start_flash, cleanup and the finished slot.
C22_AtMostOneExecution == ActiveExecutions <= 1

\* C26: no fastboot command of the worker is issued while a probe of the
\* watcher is in progress (the plan of this run has no reboot-to-bootloader
\* step, so there is no window in which the watcher is resumed).
C26_NoProbeDuringCommand == [][Len(cmds') > Len(cmds) => wpc # "probing"]_vars

====
